---- MODULE Spec2Model ----
(***************************************************************************)
(* Model of certificates-api/dl_certs.py: the container splitter           *)
(* (parse_certs), the certificate parser (parse_certificate,               *)
(* get_public_key_info), the per-provider insert unit (store_certs), the   *)
(* store initialisation (init_database) and the feed orchestrator          *)
(* (download_2ddoc_files, __main__).                                       *)
(*                                                                         *)
(* Byte strings are sequences of integers 0..255.                          *)
(***************************************************************************)
EXTENDS Integers, Sequences, FiniteSets, TLC

(***************************************************************************)
(* Bounds of the model.                                                    *)
(***************************************************************************)
\* Number of chunks a container byte stream is assembled from (SpecSplit).
MaxChunks == 5

\* Number of certificate segments of the batch of one store_certs call
\* (SpecStore).
MaxCerts == 5

\* Number of TrustServiceProvider entries of the trust list (Spec).
MaxProviders == 2

(***************************************************************************)
(* Byte-string literals of the source.                                     *)
(***************************************************************************)
\* b'--End'
EndDelim == <<45, 45, 69, 110, 100>>

\* b'Content-type'
ContentTypeLower == <<67, 111, 110, 116, 101, 110, 116, 45, 116, 121, 112, 101>>

\* b'Content-Type'
ContentTypeCanon == <<67, 111, 110, 116, 101, 110, 116, 45, 84, 121, 112, 101>>

\* b': application/pkix-cert', the tail of the content-type marker
MarkerTail == <<58, 32, 97, 112, 112, 108, 105, 99, 97, 116, 105, 111, 110, 47,
                112, 107, 105, 120, 45, 99, 101, 114, 116>>

\* b'Content-Type: application/pkix-cert'
Marker == ContentTypeCanon \o MarkerTail

\* The case variant of the marker that the normalisation maps to Marker.
MarkerLower == ContentTypeLower \o MarkerTail

\* The bytes Python's bytes.strip() removes: \t \n \v \f \r and space.
Whitespace == {9, 10, 11, 12, 13, 32}

(***************************************************************************)
(* Python bytes operations used by parse_certs.                            *)
(***************************************************************************)
\* s[i .. i+len(pat)-1] = pat (1-based i)
MatchAt(s, pat, i) ==
    /\ i >= 1
    /\ i + Len(pat) - 1 <= Len(s)
    /\ \A k \in 1..Len(pat) : s[i + k - 1] = pat[k]

\* bytes.find: index (1-based) of the first occurrence of pat in s at or
\* after position from, 0 when there is none.
RECURSIVE Find(_, _, _)
Find(s, pat, from) ==
    IF from + Len(pat) - 1 > Len(s) THEN 0
    ELSE IF MatchAt(s, pat, from) THEN from
    ELSE Find(s, pat, from + 1)

\* pat in s
Contains(s, pat) == Find(s, pat, 1) # 0

\* bytes.split(sep): the pieces between the non-overlapping occurrences of
\* sep, scanned left to right; count(sep) + 1 pieces.
RECURSIVE BytesSplit(_, _)
BytesSplit(s, sep) ==
    LET p == Find(s, sep, 1) IN
    IF p = 0 THEN <<s>>
    ELSE <<SubSeq(s, 1, p - 1)>> \o BytesSplit(SubSeq(s, p + Len(sep), Len(s)), sep)

\* bytes.replace(old, new): every non-overlapping occurrence, left to right.
RECURSIVE BytesReplace(_, _, _)
BytesReplace(s, old, new) ==
    LET p == Find(s, old, 1) IN
    IF p = 0 THEN s
    ELSE SubSeq(s, 1, p - 1) \o new
         \o BytesReplace(SubSeq(s, p + Len(old), Len(s)), old, new)

\* bytes.split(sep, 1)[1]: everything after the first occurrence of sep.
AfterFirst(s, sep) ==
    LET p == Find(s, sep, 1) IN SubSeq(s, p + Len(sep), Len(s))

RECURSIVE LStrip(_)
LStrip(s) ==
    IF s # <<>> /\ Head(s) \in Whitespace THEN LStrip(Tail(s)) ELSE s

RECURSIVE RStrip(_)
RStrip(s) ==
    IF s # <<>> /\ s[Len(s)] \in Whitespace
    THEN RStrip(SubSeq(s, 1, Len(s) - 1)) ELSE s

\* bytes.strip()
Strip(s) == RStrip(LStrip(s))

(***************************************************************************)
(* parse_certs: the container splitter.                                    *)
(***************************************************************************)
\* Line 207: the header-casing normalisation, applied to a whole section.
NormalizeSection(section) ==
    BytesReplace(section, ContentTypeLower, ContentTypeCanon)

\* CollectCerts appending the segments in the wrong order.
RECURSIVE CollectCertsReversed(_)
CollectCertsReversed(sections) ==
    IF sections = <<>> THEN <<>>
    ELSE LET section == NormalizeSection(Head(sections))
             rest == CollectCertsReversed(Tail(sections))
         IN IF Contains(section, Marker)
            THEN LET cert_content == Strip(AfterFirst(section, Marker))
                 IN IF cert_content # <<>>
                    THEN rest \o <<cert_content>>
                    ELSE rest
            ELSE rest

\* Lines 206-211, the loop over the sections, as a fold.
RECURSIVE CollectCerts(_)
CollectCerts(sections) ==
    IF sections = <<>> THEN <<>>
    ELSE LET section == NormalizeSection(Head(sections))
             rest == CollectCerts(Tail(sections))
         IN IF Contains(section, Marker)
            THEN LET cert_content == Strip(AfterFirst(section, Marker))
                 IN IF cert_content # <<>>
                    THEN <<cert_content>> \o rest
                    ELSE rest
            ELSE rest

\* parse_certs applied to the bytes of the file.
ParseCerts(content) == CollectCerts(BytesSplit(content, EndDelim))

(***************************************************************************)
(* Number formatting used by the parser and the tracker.                   *)
(***************************************************************************)
HexDigitsLower == <<"0", "1", "2", "3", "4", "5", "6", "7",
                    "8", "9", "a", "b", "c", "d", "e", "f">>

HexDigitsUpper == <<"0", "1", "2", "3", "4", "5", "6", "7",
                    "8", "9", "A", "B", "C", "D", "E", "F">>

DecDigits == <<"0", "1", "2", "3", "4", "5", "6", "7", "8", "9">>

\* HexOfByte without the leading zero of a byte below 16 (as format(b, 'x')).
HexOfByteUnpadded(b) ==
    IF b < 16 THEN HexDigitsLower[b + 1]
    ELSE HexDigitsLower[(b \div 16) + 1] \o HexDigitsLower[(b % 16) + 1]

\* One byte as bytes.hex() renders it: two lowercase digits.
HexOfByte(b) == HexDigitsLower[(b \div 16) + 1] \o HexDigitsLower[(b % 16) + 1]

\* bytes.hex(): two lowercase hexadecimal digits per byte.
RECURSIVE BytesHex(_)
BytesHex(bytes) ==
    IF bytes = <<>> THEN ""
    ELSE HexOfByte(Head(bytes)) \o BytesHex(Tail(bytes))

\* format(n, 'X'): uppercase hexadecimal, no prefix, no padding.
RECURSIVE FormatX(_)
FormatX(n) ==
    IF n < 16 THEN HexDigitsUpper[n + 1]
    ELSE FormatX(n \div 16) \o HexDigitsUpper[(n % 16) + 1]

\* str(n) of a non-negative integer.
RECURSIVE Str(_)
Str(n) ==
    IF n < 10 THEN DecDigits[n + 1]
    ELSE Str(n \div 10) \o DecDigits[(n % 10) + 1]

\* int.to_bytes(length, byteorder='big'): fixed width, zero padded on the left.
RECURSIVE ToBytes(_, _)
ToBytes(n, length) ==
    IF length = 0 THEN <<>>
    ELSE ToBytes(n \div 256, length - 1) \o <<n % 256>>

(***************************************************************************)
(* The certificates of the model.  x509.load_der_x509_certificate is the   *)
(* library's decoder: a DER string either decodes to the certificate it    *)
(* encodes or is rejected.  The model knows the DER strings below; every   *)
(* other byte string is malformed DER.  Keys and curves are scaled down.   *)
(***************************************************************************)
\* What a certificate holds when a field is absent.
None == "None"

RsaKeyA == [alg |-> "RSA", key_size |-> 16, n |-> 259, e |-> 3]

EcKeyC == [alg |-> "EC", curve |-> [name |-> "toy9r1", key_size |-> 9],
           x |-> 1, y |-> 256]

EdKeyD == [alg |-> "Ed25519", raw |-> <<1, 0>>]

EdKeyF == [alg |-> "Ed448", raw |-> <<16>>]

DsaKeyE == [alg |-> "DSA", y |-> 7]

\* A valid certificate with RSA key A.
DerA == <<48, 1>>

\* Another certificate (other serial number) with the same RSA key A.
DerB == <<48, 2>>

\* A valid certificate with an EC key.
DerC == <<48, 3>>

\* A valid certificate with an Ed25519 key.
DerD == <<48, 4>>

\* A valid certificate with an Ed448 key.
DerF == <<48, 8>>

\* A certificate whose key algorithm (DSA) is none of the four supported.
DerUnsupported == <<48, 5>>

\* A certificate with RSA key A whose subject has no Common Name.
DerNoSubjectCN == <<48, 6>>

\* A certificate with the EC key whose issuer has no Common Name.
DerNoIssuerCN == <<48, 7>>

\* Bytes that are no DER certificate.
DerMalformed == <<65>>

Certificate(pk, subject, issuer, serial) ==
    [ok |-> TRUE, public_key |-> pk, subject_cn |-> subject,
     issuer_cn |-> issuer, serial_number |-> serial,
     not_valid_before |-> "2020-01-01", not_valid_after |-> "2030-01-01"]

\* An exception raised instead of a result.
Raised(exception) == [ok |-> FALSE, exception |-> exception]

\* x509.load_der_x509_certificate: the certificate, or ValueError.
LoadDerX509Certificate(der) ==
    CASE der = DerA -> Certificate(RsaKeyA, <<"alice">>, <<"ca">>, 255)
      [] der = DerB -> Certificate(RsaKeyA, <<"alice">>, <<"ca">>, 4096)
      [] der = DerC -> Certificate(EcKeyC, <<"carol", "carol2">>, <<"ca">>, 10)
      [] der = DerD -> Certificate(EdKeyD, <<"dave">>, <<"ca">>, 11)
      [] der = DerF -> Certificate(EdKeyF, <<"frank">>, <<"ca">>, 15)
      [] der = DerUnsupported -> Certificate(DsaKeyE, <<"erin">>, <<"ca">>, 12)
      [] der = DerNoSubjectCN -> Certificate(RsaKeyA, <<>>, <<"ca">>, 13)
      [] der = DerNoIssuerCN -> Certificate(EcKeyC, <<"gina">>, <<>>, 14)
      [] OTHER -> Raised("ValueError")

\* public_bytes(DER, SubjectPublicKeyInfo) of an RSA key: the library's
\* encoding, a function of the key alone (a SEQUENCE tag, then the modulus
\* and the exponent at fixed width).
SpkiDer(pk) ==
    <<48>> \o ToBytes(pk.n, (pk.key_size + 7) \div 8) \o ToBytes(pk.e, 1)

\* get_public_key_info: (key_type, key_format, key_info, key_bytes), or
\* ValueError for a key of none of the four supported classes.
GetPublicKeyInfo(pk) ==
    CASE pk.alg = "EC" ->
           LET key_size == (pk.curve.key_size + 7) \div 8
               x_bytes == ToBytes(pk.x, key_size)
               y_bytes == ToBytes(pk.y, key_size)
           IN [ok |-> TRUE, key_type |-> "EC", key_format |-> "SEC1",
               key_info |-> pk.curve.name,
               public_key |-> <<4>> \o x_bytes \o y_bytes]
      [] pk.alg = "RSA" ->
           [ok |-> TRUE, key_type |-> "RSA", key_format |-> "SPKI",
            key_info |-> Str(pk.key_size), public_key |-> SpkiDer(pk)]
      [] pk.alg \in {"Ed25519", "Ed448"} ->
           [ok |-> TRUE, key_type |-> pk.alg, key_format |-> "RAW",
            key_info |-> None, public_key |-> pk.raw]
      [] OTHER -> Raised("ValueError")

\* parse_certificate: (key_info, cert_fields) with ok, or ok = FALSE for
\* (None, None): every exception inside is caught at line 194.
ParseCertificate(cert_content) ==
    LET cert == LoadDerX509Certificate(cert_content) IN
    IF ~cert.ok THEN [ok |-> FALSE]
    ELSE LET key_info == GetPublicKeyInfo(cert.public_key) IN
         IF ~key_info.ok THEN [ok |-> FALSE]
         ELSE IF cert.subject_cn = <<>> \/ cert.issuer_cn = <<>>
         THEN [ok |-> FALSE]
         ELSE [ok |-> TRUE,
               key_info |-> key_info,
               cert_fields |->
                 [subject_name |-> cert.subject_cn[1],
                  issuer_name |-> cert.issuer_cn[1],
                  serial_number |-> FormatX(cert.serial_number),
                  not_valid_before |-> cert.not_valid_before,
                  not_valid_after |-> cert.not_valid_after]]

(***************************************************************************)
(* State.                                                                  *)
(***************************************************************************)
VARIABLES
    main_pc,          \* position of __main__ / download_2ddoc_files
    tl,               \* the TrustServiceProvider entries of the fetched list
    idx,              \* index of the provider the loop of line 302 is at
    db,               \* certificates.db: the file and its committed rows
    conn,             \* the sqlite3 connection of store_certs and its view
    db_at_call,       \* the committed store when store_certs connected
    sc_pc,            \* position inside store_certs
    sc_args,          \* the arguments of the store_certs call
    sc_i,             \* the loop counter i of line 233
    provider_id,      \* cursor.lastrowid of line 228
    seen_public_keys, \* the set of line 231
    log,              \* what the run has printed, as events
    content,          \* the bytes of the file parse_certs reads
    split_pc,         \* position of a lone parse_certs call
    split_result      \* what that call returned

main_vars == <<main_pc, tl, idx>>

store_vars == <<db, conn, db_at_call, sc_pc, sc_args, sc_i, provider_id,
                seen_public_keys, log>>

split_vars == <<content, split_pc, split_result>>

vars == <<main_pc, tl, idx, db, conn, db_at_call, sc_pc, sc_args, sc_i,
          provider_id, seen_public_keys, log, content, split_pc, split_result>>

(***************************************************************************)
(* The store: certificates.db and a connection to it.                      *)
(***************************************************************************)
\* The tables of lines 40-69 right after their creation: no row, and the
\* AUTOINCREMENT counters (sqlite_sequence) at zero.
EmptyTables ==
    [providers |-> <<>>, certificates |-> <<>>,
     seq_providers |-> 0, seq_certificates |-> 0]

\* No certificates.db in the working directory.
NoDatabase ==
    [exists |-> FALSE, removable |-> TRUE, has_tables |-> FALSE,
     tables |-> EmptyTables]

\* No connection is open.
Closed == [open |-> FALSE, tables |-> EmptyTables]

\* sqlite3.connect('certificates.db'): a connection that sees the committed
\* rows; the first INSERT opens its transaction.
Connect(d) == [open |-> TRUE, tables |-> d.tables]

\* A row of the providers table (lines 41-47, insert of lines 223-226).
ProviderRow(id, name, trade_name, original_filename, now) ==
    [id |-> id, name |-> name, trade_name |-> trade_name,
     original_filename |-> original_filename, downloaded_at |-> now]

\* A row of the certificates table (lines 52-68, insert of lines 246-260).
CertificateRow(id, pid, cert_content, parsed, i, now) ==
    [id |-> id, provider_id |-> pid, cert_content |-> cert_content,
     public_key |-> parsed.key_info.public_key,
     key_type |-> parsed.key_info.key_type,
     key_format |-> parsed.key_info.key_format,
     key_info |-> parsed.key_info.key_info,
     subject_name |-> parsed.cert_fields.subject_name,
     issuer_name |-> parsed.cert_fields.issuer_name,
     serial_number |-> parsed.cert_fields.serial_number,
     not_valid_before |-> parsed.cert_fields.not_valid_before,
     not_valid_after |-> parsed.cert_fields.not_valid_after,
     cert_number |-> i, created_at |-> now]

\* INSERT INTO providers through connection c: the row gets the next
\* AUTOINCREMENT id and is pending until the commit.
InsertProvider(c, name, trade_name, original_filename) ==
    LET id == c.tables.seq_providers + 1 IN
    [c EXCEPT !.tables.providers =
                  Append(@, ProviderRow(id, name, trade_name,
                                        original_filename, "this_run")),
              !.tables.seq_providers = id]

\* INSERT INTO certificates through connection c.
InsertCertificate(c, pid, cert_content, parsed, i) ==
    LET id == c.tables.seq_certificates + 1 IN
    [c EXCEPT !.tables.certificates =
                  Append(@, CertificateRow(id, pid, cert_content, parsed, i,
                                           "this_run")),
              !.tables.seq_certificates = id]

\* An event of the standard output.
Event(what, provider, i) ==
    [event |-> what, provider |-> provider, cert_number |-> i]

(***************************************************************************)
(* store_certs: the insert unit of one provider.                           *)
(***************************************************************************)
\* Line 240: has this key been seen in this provider's batch?
IsDuplicateKey(seen, public_key_hex) == public_key_hex \in seen

\* AddKey remembering the latest key only.
AddKeyForgets(seen, public_key_hex) == {public_key_hex}

\* Line 244: remember the key.
AddKey(seen, public_key_hex) == seen \cup {public_key_hex}

\* Lines 219-220 and the caller's side of the call: the frame of a
\* store_certs call that has connected and is about to enter the try block.
CallStoreCerts(args) ==
    /\ conn' = Connect(db)
    /\ db_at_call' = db
    /\ sc_args' = args
    /\ sc_pc' = "insert_provider"
    /\ sc_i' = 0
    /\ provider_id' = 0
    /\ seen_public_keys' = {}

\* Lines 223-231: insert the provider row, take its id, start the tracker.
SC_InsertProvider ==
    /\ sc_pc = "insert_provider"
    /\ conn' = InsertProvider(conn, sc_args.provider_name, sc_args.trade_name,
                              sc_args.original_filename)
    /\ provider_id' = conn'.tables.seq_providers
    /\ seen_public_keys' = {}
    /\ sc_i' = 1
    /\ sc_pc' = "loop"
    /\ UNCHANGED <<db, db_at_call, sc_args, log, main_vars, split_vars>>

\* SC_NextCertificate with a certificate that fails to parse ending the loop
\* (a break where the code passes over).
SC_NextCertificateBreaks ==
    /\ sc_pc = "loop"
    /\ sc_i <= Len(sc_args.certificates)
    /\ LET parsed == ParseCertificate(sc_args.certificates[sc_i]) IN
       IF parsed.ok
       THEN LET public_key_hex == BytesHex(parsed.key_info.public_key) IN
            /\ IF IsDuplicateKey(seen_public_keys, public_key_hex)
               THEN /\ log' = Append(log, Event("duplicate_key",
                                                sc_args.provider_name, sc_i))
                    /\ UNCHANGED seen_public_keys
               ELSE /\ seen_public_keys' = AddKey(seen_public_keys, public_key_hex)
                    /\ UNCHANGED log
            /\ sc_pc' = "insert_certificate"
            /\ UNCHANGED sc_i
       ELSE /\ sc_i' = Len(sc_args.certificates) + 1
            /\ UNCHANGED <<sc_pc, seen_public_keys, log>>
    /\ UNCHANGED <<db, conn, db_at_call, sc_args, provider_id,
                   main_vars, split_vars>>

\* Lines 233-244: the next certificate of the loop: parse it; a certificate
\* that fails to parse is passed over; for one that parses, the tracker
\* warns or remembers the key, and the insert comes next.
SC_NextCertificate ==
    /\ sc_pc = "loop"
    /\ sc_i <= Len(sc_args.certificates)
    /\ LET parsed == ParseCertificate(sc_args.certificates[sc_i]) IN
       IF parsed.ok
       THEN LET public_key_hex == BytesHex(parsed.key_info.public_key) IN
            /\ IF IsDuplicateKey(seen_public_keys, public_key_hex)
               THEN /\ log' = Append(log, Event("duplicate_key",
                                                sc_args.provider_name, sc_i))
                    /\ UNCHANGED seen_public_keys
               ELSE /\ seen_public_keys' = AddKey(seen_public_keys, public_key_hex)
                    /\ UNCHANGED log
            /\ sc_pc' = "insert_certificate"
            /\ UNCHANGED sc_i
       ELSE /\ sc_i' = sc_i + 1
            /\ UNCHANGED <<sc_pc, seen_public_keys, log>>
    /\ UNCHANGED <<db, conn, db_at_call, sc_args, provider_id,
                   main_vars, split_vars>>

\* SC_InsertCertificate with a certificate just flagged as a duplicate left
\* out of the store.
SC_InsertCertificateDeduplicates ==
    /\ sc_pc = "insert_certificate"
    /\ conn' = IF log # <<>>
                  /\ log[Len(log)] = Event("duplicate_key",
                                           sc_args.provider_name, sc_i)
               THEN conn
               ELSE InsertCertificate(conn, provider_id,
                                      sc_args.certificates[sc_i],
                                      ParseCertificate(sc_args.certificates[sc_i]),
                                      sc_i)
    /\ sc_i' = sc_i + 1
    /\ sc_pc' = "loop"
    /\ UNCHANGED <<db, db_at_call, sc_args, provider_id, seen_public_keys,
                   log, main_vars, split_vars>>

\* Lines 246-260: insert the certificate row; on to the next iteration.
SC_InsertCertificate ==
    /\ sc_pc = "insert_certificate"
    /\ conn' = InsertCertificate(conn, provider_id, sc_args.certificates[sc_i],
                                 ParseCertificate(sc_args.certificates[sc_i]),
                                 sc_i)
    /\ sc_i' = sc_i + 1
    /\ sc_pc' = "loop"
    /\ UNCHANGED <<db, db_at_call, sc_args, provider_id, seen_public_keys,
                   log, main_vars, split_vars>>

\* Lines 262-264: the loop is over; commit and report.
SC_Commit ==
    /\ sc_pc = "loop"
    /\ sc_i > Len(sc_args.certificates)
    /\ db' = [db EXCEPT !.tables = conn.tables]
    /\ log' = Append(log, Event("stored", sc_args.provider_name,
                                Len(sc_args.certificates)))
    /\ sc_pc' = "close"
    /\ UNCHANGED <<conn, db_at_call, sc_args, sc_i, provider_id,
                   seen_public_keys, main_vars, split_vars>>

\* Where an sqlite3 call of the try block can raise: the provider insert of
\* line 223, a certificate insert of line 246, the commit of line 262.
AtDatabaseCall ==
    \/ sc_pc = "insert_provider"
    \/ sc_pc = "insert_certificate"
    \/ sc_pc = "loop" /\ sc_i > Len(sc_args.certificates)

\* SC_DatabaseError with the inserts made so far kept in the store (a
\* connection in autocommit mode).
SC_DatabaseErrorKeepsInserts ==
    /\ AtDatabaseCall
    /\ log' = Append(log, Event("database_error", sc_args.provider_name, sc_i))
    /\ db' = [db EXCEPT !.tables = conn.tables]
    /\ sc_pc' = "close"
    /\ UNCHANGED <<conn, db_at_call, sc_args, sc_i, provider_id,
                   seen_public_keys, main_vars, split_vars>>

\* Lines 266-271: the sqlite3 call raises; report and roll back.
SC_DatabaseError ==
    /\ AtDatabaseCall
    /\ log' = Append(log, Event("database_error", sc_args.provider_name, sc_i))
    /\ conn' = Connect(db)
    /\ sc_pc' = "close"
    /\ UNCHANGED <<db, db_at_call, sc_args, sc_i, provider_id,
                   seen_public_keys, main_vars, split_vars>>

\* Line 274: close the connection; store_certs returns.
SC_Close ==
    /\ sc_pc = "close"
    /\ conn' = Closed
    /\ sc_pc' = "returned"
    /\ UNCHANGED <<db, db_at_call, sc_args, sc_i, provider_id,
                   seen_public_keys, log, main_vars, split_vars>>

StoreCertsStep ==
    \/ SC_InsertProvider
    \/ SC_NextCertificate
    \/ SC_InsertCertificate
    \/ SC_Commit
    \/ SC_DatabaseError
    \/ SC_Close

(***************************************************************************)
(* SpecStore: one store_certs call on any batch, on a store that holds     *)
(* what an earlier provider of the run committed.                          *)
(***************************************************************************)
\* The DER segments the batches of SpecStore are made of.
StoreAlphabet == {DerA, DerB, DerC, DerD, DerF, DerNoSubjectCN}

\* parse_certs returns non-empty segments, and store_certs is called for a
\* non-empty list only (line 322).
Batches == UNION {[1..n -> StoreAlphabet] : n \in 1..MaxCerts}

\* The tables after an earlier provider stored DerA and DerC.
TablesAfterOneProvider ==
    LET c0 == Connect([tables |-> EmptyTables])
        c1 == InsertProvider(c0, "p1", "t1", "p1.2ddoc")
        c2 == InsertCertificate(c1, 1, DerA, ParseCertificate(DerA), 1)
        c3 == InsertCertificate(c2, 1, DerC, ParseCertificate(DerC), 2)
    IN c3.tables

\* The store the call finds: the tables exist and hold what the earlier
\* provider committed.
PriorStore ==
    [exists |-> TRUE, removable |-> TRUE, has_tables |-> TRUE,
     tables |-> TablesAfterOneProvider]

InitStore ==
    /\ main_pc = "store_certs"
    /\ tl = <<>>
    /\ idx = 0
    /\ db = PriorStore
    /\ conn = Connect(db)
    /\ db_at_call = db
    /\ sc_args \in [provider_name : {"p2"}, trade_name : {"t2"},
                    original_filename : {"p2.2ddoc"}, certificates : Batches]
    /\ sc_pc = "insert_provider"
    /\ sc_i = 0
    /\ provider_id = 0
    /\ seen_public_keys = {}
    /\ log = <<>>
    /\ content = <<>>
    /\ split_pc = "idle"
    /\ split_result = <<>>

NextStore == StoreCertsStep

SpecStore == InitStore /\ [][NextStore]_vars

(***************************************************************************)
(* Properties of store_certs (SpecStore).                                  *)
(***************************************************************************)
Range(seq) == {seq[k] : k \in 1..Len(seq)}

\* The rows of a table that were not there before.
NewRows(after, before) == SubSeq(after, Len(before) + 1, Len(after))

\* Every row of before is still in after, at its place.
KeepsRows(after, before) ==
    /\ Len(after) >= Len(before)
    /\ SubSeq(after, 1, Len(before)) = before

\* The DER strings of the model.
KnownDer == {DerA, DerB, DerC, DerD, DerF, DerUnsupported, DerNoSubjectCN,
             DerNoIssuerCN, DerMalformed}

\* parse_certificate, tabulated over them.
ParseTable == [der \in KnownDer |-> ParseCertificate(der)]

\* The tabulated result for a DER string.
Parsed(der) == ParseTable[der]

\* The positions of the batch whose segment parses.
ParsedPositions ==
    {i \in 1..Len(sc_args.certificates) :
        Parsed(sc_args.certificates[i]).ok}

\* The canonical public-key bytes of the certificate at a parsed position.
KeyOf(i) == Parsed(sc_args.certificates[i]).key_info.public_key

InsideUnit == sc_pc \in {"insert_provider", "loop", "insert_certificate"}

UnitOver == sc_pc \in {"close", "returned"}

ErrorRaised ==
    UnitOver /\ log # <<>> /\ log[Len(log)].event = "database_error"

CommitDone ==
    UnitOver /\ log # <<>> /\ log[Len(log)].event = "stored"

\* The positions the tracker has handled: those before the loop counter,
\* and the counter's own once its key has been looked up.
TrackedPositions ==
    IF sc_pc = "insert_provider" THEN {}
    ELSE IF sc_pc = "loop" THEN ParsedPositions \cap 1..(sc_i - 1)
    ELSE ParsedPositions \cap 1..sc_i

\* The positions whose row the connection has inserted.
InsertedPositions == ParsedPositions \cap 1..(sc_i - 1)

\* The certificate rows this call has put in a table.
CallCertificates(tables) ==
    NewRows(tables.certificates, db_at_call.tables.certificates)

\* The provider rows this call has put in a table.
CallProviders(tables) ==
    NewRows(tables.providers, db_at_call.tables.providers)

\* The store holds the provider's row and one certificate row for every
\* parsed certificate of the batch, and the earlier rows as they were.
WholeUnitStored ==
    LET newp == CallProviders(db.tables)
        newc == CallCertificates(db.tables)
    IN /\ KeepsRows(db.tables.providers, db_at_call.tables.providers)
       /\ KeepsRows(db.tables.certificates, db_at_call.tables.certificates)
       /\ Len(newp) = 1
       /\ newp[1].name = sc_args.provider_name
       /\ newp[1].trade_name = sc_args.trade_name
       /\ newp[1].original_filename = sc_args.original_filename
       /\ Len(newc) = Cardinality(ParsedPositions)
       /\ \A i \in ParsedPositions :
             \E k \in 1..Len(newc) :
                /\ newc[k].cert_number = i
                /\ newc[k].cert_content = sc_args.certificates[i]
                /\ newc[k].provider_id = newp[1].id

\* C1: store_certs is atomic per provider.  Nothing of the unit is in the
\* store before the commit; once the unit is over the store holds either the
\* whole unit (the provider row and a certificate row for every parsed
\* certificate) on top of the unchanged earlier rows, or exactly what it held
\* when the call began; and after an error raised at any point of the unit
\* it is the latter, with nothing pending on the connection.
C1_AtomicPerProvider ==
    /\ InsideUnit => db = db_at_call
    /\ UnitOver => (WholeUnitStored \/ db = db_at_call)
    /\ ErrorRaised => /\ db = db_at_call
                      /\ conn.open => conn.tables = db.tables

\* C1 witness: the call has returned after an error raised once the provider
\* and at least two certificates were inserted, on a store that held an
\* earlier provider's rows.
C1_Witness ==
    /\ sc_pc = "returned"
    /\ ErrorRaised
    /\ Cardinality(InsertedPositions) >= 2
    /\ db_at_call.tables.providers # <<>>
    /\ db_at_call.tables.certificates # <<>>

\* C2: per-certificate failure isolation.  While the loop runs, the rows
\* inserted are exactly those of the parsed positions passed so far, so a
\* segment that fails to parse gets no row and the parsed ones before and
\* after it get theirs; a committed unit holds a row for exactly the parsed
\* positions of the whole batch; an error that ends the unit is raised at a
\* database call, never at a segment that fails to parse; and malformed DER,
\* an unsupported key algorithm and a subject or issuer without Common Name
\* each make the segment fail to parse.
C2_FailureIsolation ==
    /\ (sc_pc \in {"loop", "insert_certificate"}) =>
          {r.cert_number : r \in Range(CallCertificates(conn.tables))}
             = InsertedPositions
    /\ CommitDone =>
          /\ {r.cert_number : r \in Range(CallCertificates(db.tables))}
                = ParsedPositions
          /\ \A r \in Range(CallCertificates(db.tables)) :
                r.cert_content = sc_args.certificates[r.cert_number]
          /\ sc_i = Len(sc_args.certificates) + 1
    /\ (ErrorRaised /\ sc_i \in 1..Len(sc_args.certificates)) =>
          sc_i \in ParsedPositions
    /\ \A der \in {DerMalformed, DerUnsupported, DerNoSubjectCN, DerNoIssuerCN} :
          ~Parsed(der).ok

\* C2 witness: a committed batch in which a failing segment comes before a
\* parsed one and another failing segment comes after it.
C2_Witness ==
    /\ CommitDone
    /\ \E i, j, k \in 1..Len(sc_args.certificates) :
          /\ i < j /\ j < k
          /\ i \notin ParsedPositions
          /\ j \in ParsedPositions
          /\ k \notin ParsedPositions

\* The duplicate-key warnings printed for this call's provider, by position.
WarnedPositions ==
    {i \in 1..Len(sc_args.certificates) :
        Event("duplicate_key", sc_args.provider_name, i) \in Range(log)}

\* C3: a duplicate-key warning is printed for position i exactly when the
\* tracker has handled the parsed certificate at i and a parsed certificate
\* at an earlier position of the same batch has byte-identical canonical
\* public-key bytes; each position is warned about at most once.
C3_DuplicateWarning ==
    (InsideUnit \/ UnitOver) =>
       /\ WarnedPositions =
             {i \in TrackedPositions :
                 \E j \in ParsedPositions : j < i /\ KeyOf(j) = KeyOf(i)}
       /\ Cardinality({k \in 1..Len(log) : log[k].event = "duplicate_key"})
             = Cardinality(WarnedPositions)

\* C3 witness: a committed batch of five parsed certificates in which
\* positions 2 and 5 share a key and no other two do; the one warning is at
\* position 5.
C3_Witness ==
    /\ CommitDone
    /\ Len(sc_args.certificates) = 5
    /\ ParsedPositions = 1..5
    /\ \A i, j \in 1..5 :
          (i < j /\ KeyOf(i) = KeyOf(j)) <=> (i = 2 /\ j = 5)
    /\ WarnedPositions = {5}

\* C4: at every point of the batch the seen-key set holds exactly the hex
\* renderings of the keys of the certificates the tracker has handled, its
\* size is the number of distinct keys among them, and warnings plus set
\* size is the number of certificates the tracker has handled.
C4_TrackerSet ==
    (InsideUnit \/ UnitOver) =>
       /\ seen_public_keys = {BytesHex(KeyOf(i)) : i \in TrackedPositions}
       /\ Cardinality(seen_public_keys)
             = Cardinality({KeyOf(i) : i \in TrackedPositions})
       /\ Cardinality(WarnedPositions) + Cardinality(seen_public_keys)
             = Cardinality(TrackedPositions)

\* C4 witness: a batch has ended with three distinct keys seen and a warning.
C4_Witness ==
    /\ CommitDone
    /\ Cardinality(seen_public_keys) = 3
    /\ WarnedPositions # {}

\* C5: a committed batch has one certificate row for every parsed
\* certificate, duplicates of an earlier key included: as many rows as
\* parsed certificates, and every position warned about has its row, with
\* the key it repeats.
C5_DuplicatesStored ==
    CommitDone =>
       LET rows == CallCertificates(db.tables) IN
       /\ Len(rows) = Cardinality(ParsedPositions)
       /\ \A i \in WarnedPositions :
             \E k \in 1..Len(rows) :
                /\ rows[k].cert_number = i
                /\ rows[k].public_key = KeyOf(i)
                /\ rows[k].cert_content = sc_args.certificates[i]

\* C5 witness: a committed batch with a duplicate, so more rows than
\* distinct keys.
C5_Witness ==
    /\ CommitDone
    /\ WarnedPositions # {}
    /\ Len(CallCertificates(db.tables)) > Cardinality(seen_public_keys)

(***************************************************************************)
(* SpecSplit: parse_certs on any container byte stream assembled from      *)
(* the pieces the format is made of.                                       *)
(***************************************************************************)
\* The pieces: the delimiter, the marker in both casings, the bare header
\* name in its variant casing (as payload bytes), a newline, and a DER
\* payload.
Chunks == {EndDelim, Marker, MarkerLower, ContentTypeLower, <<10>>, DerA}

RECURSIVE Concat(_)
Concat(pieces) ==
    IF pieces = <<>> THEN <<>> ELSE Head(pieces) \o Concat(Tail(pieces))

Streams == {Concat(f) : f \in UNION {[1..n -> Chunks] : n \in 0..MaxChunks}}

InitSplit ==
    /\ content \in Streams
    /\ split_pc = "ready"
    /\ split_result = <<>>
    /\ main_pc = "parse_certs"
    /\ tl = <<>>
    /\ idx = 0
    /\ db = NoDatabase
    /\ conn = Closed
    /\ db_at_call = NoDatabase
    /\ sc_args = [provider_name |-> "", trade_name |-> "",
                  original_filename |-> "", certificates |-> <<>>]
    /\ sc_pc = "idle"
    /\ sc_i = 0
    /\ provider_id = 0
    /\ seen_public_keys = {}
    /\ log = <<>>

\* Lines 198-213: the call reads the file and returns the segments.
Split_ParseCerts ==
    /\ split_pc = "ready"
    /\ split_result' = ParseCerts(content)
    /\ split_pc' = "returned"
    /\ UNCHANGED <<content, main_vars, store_vars>>

NextSplit == Split_ParseCerts

SpecSplit == InitSplit /\ [][NextSplit]_vars

(***************************************************************************)
(* init_database, download_2ddoc_files and __main__.                       *)
(***************************************************************************)
\* init_database as a function of the store it finds (lines 19-79): an
\* existing file that cannot be removed is left as it is (line 33);
\* otherwise the file is new and holds the two empty tables.
InitDatabase(d) ==
    IF d.exists /\ ~d.removable THEN d
    ELSE [exists |-> TRUE, removable |-> d.removable, has_tables |-> TRUE,
          tables |-> EmptyTables]

\* get_provider_name: the English name and trade name, or the two defaults
\* when either is missing (the bare except of line 282).
GetProviderName(provider) ==
    IF provider.name = None \/ provider.trade_name = None
    THEN <<"unknown_provider", "unknown_trade_name">>
    ELSE <<provider.name, provider.trade_name>>

\* os.path.basename(urlparse(url).path), the URL given as its path segments.
Basename(url) == url[Len(url)]

\* One section of a container file: the header, the payload, the delimiter.
Section(marker, payload) == marker \o <<13, 10>> \o payload \o <<10>> \o EndDelim \o <<10>>

\* A file with no qualifying section.
ContainerNoCert == <<35, 10>> \o EndDelim \o <<10>>

\* A file with one valid certificate.
ContainerOne == Section(Marker, DerA)

\* A file with two certificates of the same key, the first under the
\* variant header casing.
ContainerDup == Section(MarkerLower, DerA) \o Section(Marker, DerB)

\* A file with a malformed certificate followed by valid ones.
ContainerMixed ==
    Section(Marker, DerMalformed) \o Section(Marker, DerC) \o Section(Marker, DerD)

\* A file whose certificates all fail to parse.
ContainerAllBad ==
    Section(Marker, DerUnsupported) \o Section(Marker, DerNoIssuerCN)

Containers == {ContainerNoCert, ContainerOne, ContainerDup, ContainerMixed,
               ContainerAllBad}

\* A TrustServiceProvider element: its names, its French information URI
\* (empty when absent), and what the server of that URI answers.
Entry(name, trade_name, uri, fetch_ok, container) ==
    [name |-> name, trade_name |-> trade_name, uri |-> uri,
     fetch_ok |-> fetch_ok, container |-> container]

\* The entries the i-th element of a trust list is drawn from.
EntryChoices(i) ==
    LET name == "p" \o Str(i)
        trade == "t" \o Str(i)
        uri == <<"files", name \o ".2ddoc">>
    IN {Entry(name, trade, <<>>, FALSE, <<>>),
        Entry(name, trade, uri, FALSE, <<>>),
        Entry(name, None, uri, TRUE, ContainerOne)}
       \cup {Entry(name, trade, uri, TRUE, c) : c \in Containers}

RECURSIVE ListsOfLength(_)
ListsOfLength(n) ==
    IF n = 0 THEN {<<>>}
    ELSE {Append(l, e) : l \in ListsOfLength(n - 1), e \in EntryChoices(n)}

TrustLists == UNION {ListsOfLength(n) : n \in 0..MaxProviders}

\* A store left by a previous run: one provider and one certificate.
TablesOfPreviousRun ==
    [providers |-> <<ProviderRow(1, "old", "old_trade", "old.2ddoc",
                                 "previous_run")>>,
     certificates |-> <<CertificateRow(1, 1, DerD, ParseCertificate(DerD), 1,
                                       "previous_run")>>,
     seq_providers |-> 1, seq_certificates |-> 1]

\* What the working directory may hold when the program starts.
InitialStores ==
    {NoDatabase}
    \cup {[exists |-> TRUE, removable |-> r, has_tables |-> TRUE,
           tables |-> TablesOfPreviousRun] : r \in BOOLEAN}

Init ==
    /\ main_pc = "start"
    /\ tl = <<>>
    /\ idx = 0
    /\ db \in InitialStores
    /\ conn = Closed
    /\ db_at_call = NoDatabase
    /\ sc_args = [provider_name |-> "", trade_name |-> "",
                  original_filename |-> "", certificates |-> <<>>]
    /\ sc_pc = "idle"
    /\ sc_i = 0
    /\ provider_id = 0
    /\ seen_public_keys = {}
    /\ log = <<>>
    /\ content = <<>>
    /\ split_pc = "idle"
    /\ split_result = <<>>

\* Lines 346-348: outside a virtual environment the program exits at once.
Main_VenvGuard ==
    /\ main_pc = "start"
    /\ \E in_venv \in BOOLEAN :
          main_pc' = IF in_venv THEN "init_database" ELSE "exited"
    /\ UNCHANGED <<tl, idx, store_vars, split_vars>>

\* Line 352: init_database(); its result is not looked at.
Main_InitDatabase ==
    /\ main_pc = "init_database"
    /\ db' = InitDatabase(db)
    /\ log' = IF db' = db /\ db.exists
              THEN Append(log, Event("error_removing_database", "", 0))
              ELSE Append(log, Event("database_initialized", "", 0))
    /\ main_pc' = "fetch_trust_list"
    /\ UNCHANGED <<tl, idx, conn, db_at_call, sc_pc, sc_args, sc_i,
                   provider_id, seen_public_keys, split_vars>>

\* Lines 294-299 and 333-336: fetch and parse the trust list; a failure of
\* either ends download_2ddoc_files.
Main_FetchTrustList ==
    /\ main_pc = "fetch_trust_list"
    /\ \E outcome \in {"ok", "RequestException", "ParseError"} :
          IF outcome = "ok"
          THEN /\ tl' \in TrustLists
               /\ idx' = 1
               /\ main_pc' = "loop"
               /\ UNCHANGED log
          ELSE /\ log' = Append(log, Event(outcome, "", 0))
               /\ main_pc' = "done"
               /\ UNCHANGED <<tl, idx>>
    /\ UNCHANGED <<db, conn, db_at_call, sc_pc, sc_args, sc_i, provider_id,
                   seen_public_keys, split_vars>>

\* Lines 302-307: an entry without a French information URI is passed over.
Loop_NoUri ==
    /\ main_pc = "loop"
    /\ idx <= Len(tl)
    /\ tl[idx].uri = <<>>
    /\ idx' = idx + 1
    /\ UNCHANGED <<main_pc, tl, store_vars, split_vars>>

\* Loop_DownloadFailed with the failed download ending the loop (the
\* exception caught by the handler of line 333 instead of line 329).
Loop_DownloadFailedEndsRun ==
    /\ main_pc = "loop"
    /\ idx <= Len(tl)
    /\ tl[idx].uri # <<>>
    /\ ~tl[idx].fetch_ok
    /\ log' = Append(log, Event("failed_to_download",
                                GetProviderName(tl[idx])[1], 0))
    /\ main_pc' = "done"
    /\ UNCHANGED <<idx, tl, db, conn, db_at_call, sc_pc, sc_args, sc_i,
                   provider_id, seen_public_keys, split_vars>>

\* Lines 309-312 and 329-331: the download raises a RequestException.
Loop_DownloadFailed ==
    /\ main_pc = "loop"
    /\ idx <= Len(tl)
    /\ tl[idx].uri # <<>>
    /\ ~tl[idx].fetch_ok
    /\ log' = Append(log, Event("failed_to_download",
                                GetProviderName(tl[idx])[1], 0))
    /\ idx' = idx + 1
    /\ UNCHANGED <<main_pc, tl, db, conn, db_at_call, sc_pc, sc_args, sc_i,
                   provider_id, seen_public_keys, split_vars>>

\* Loop_Download calling store_certs whatever the number of segments.
Loop_DownloadAlwaysStores ==
    /\ main_pc = "loop"
    /\ idx <= Len(tl)
    /\ tl[idx].uri # <<>>
    /\ tl[idx].fetch_ok
    /\ LET names == GetProviderName(tl[idx])
           original_filename == Basename(tl[idx].uri)
           certs == ParseCerts(tl[idx].container)
       IN /\ CallStoreCerts([provider_name |-> names[1],
                             trade_name |-> names[2],
                             original_filename |-> original_filename,
                             certificates |-> certs])
          /\ main_pc' = "store_certs"
          /\ UNCHANGED <<idx, log>>
    /\ UNCHANGED <<tl, db, split_vars>>

\* Lines 309-327: download the file, split it, and call store_certs when
\* there is a segment; with none, the provider is done.
Loop_Download ==
    /\ main_pc = "loop"
    /\ idx <= Len(tl)
    /\ tl[idx].uri # <<>>
    /\ tl[idx].fetch_ok
    /\ LET names == GetProviderName(tl[idx])
           original_filename == Basename(tl[idx].uri)
           certs == ParseCerts(tl[idx].container)
       IN IF certs # <<>>
          THEN /\ CallStoreCerts([provider_name |-> names[1],
                                  trade_name |-> names[2],
                                  original_filename |-> original_filename,
                                  certificates |-> certs])
               /\ main_pc' = "store_certs"
               /\ UNCHANGED <<idx, log>>
          ELSE /\ log' = Append(log, Event("processed", names[1], 0))
               /\ idx' = idx + 1
               /\ UNCHANGED <<main_pc, conn, db_at_call, sc_pc, sc_args, sc_i,
                              provider_id, seen_public_keys>>
    /\ UNCHANGED <<tl, db, split_vars>>

\* Lines 326-327: store_certs has returned; on to the next provider.
Loop_AfterStore ==
    /\ main_pc = "store_certs"
    /\ sc_pc = "returned"
    /\ log' = Append(log, Event("processed", sc_args.provider_name, 0))
    /\ sc_pc' = "idle"
    /\ idx' = idx + 1
    /\ main_pc' = "loop"
    /\ UNCHANGED <<tl, db, conn, db_at_call, sc_args, sc_i, provider_id,
                   seen_public_keys, split_vars>>

\* Line 357: the loop is over.
Loop_End ==
    /\ main_pc = "loop"
    /\ idx > Len(tl)
    /\ main_pc' = "done"
    /\ UNCHANGED <<tl, idx, store_vars, split_vars>>

Next ==
    \/ Main_VenvGuard
    \/ Main_InitDatabase
    \/ Main_FetchTrustList
    \/ Loop_NoUri
    \/ Loop_DownloadFailed
    \/ Loop_Download
    \/ StoreCertsStep
    \/ Loop_AfterStore
    \/ Loop_End

Spec == Init /\ [][Next]_vars

(***************************************************************************)
(* Properties of parse_certs (SpecSplit).                                  *)
(***************************************************************************)
\* The sections of the stream: what lies between the delimiters.
Sections == BytesSplit(content, EndDelim)

\* A section qualifies when it holds the content-type marker, the word
\* "type" in either casing.
Qualifying(section) == Contains(section, Marker) \/ Contains(section, MarkerLower)

\* The bytes of a qualifying section that follow its first marker.
AfterMarker(section) ==
    LET p == Find(section, Marker, 1)
        q == Find(section, MarkerLower, 1)
        first == IF p = 0 THEN q ELSE IF q = 0 THEN p ELSE IF p < q THEN p ELSE q
    IN SubSeq(section, first + Len(Marker), Len(section))

NonBlank(bytes) == \E k \in 1..Len(bytes) : bytes[k] \notin Whitespace

QualifyingSections == SelectSeq(Sections, Qualifying)

\* A qualifying section with something other than whitespace after its marker.
Emitting(section) == Qualifying(section) /\ NonBlank(AfterMarker(section))

EmittingSections == SelectSeq(Sections, Emitting)

\* Bytes with every "T" read as "t".
FoldT(bytes) == [k \in 1..Len(bytes) |-> IF bytes[k] = 84 THEN 116 ELSE bytes[k]]

\* The segment is a run of bytes of the section, the casing of "t" aside.
ComesFrom(segment, section) == Contains(FoldT(section), FoldT(segment))

\* C6 as stated: N qualifying sections give exactly N segments, the k-th
\* from the k-th qualifying section, also when a qualifying section has
\* nothing but whitespace after its marker.
C6_AsStated ==
    split_pc = "returned" =>
       /\ Len(split_result) = Len(QualifyingSections)
       /\ \A k \in 1..Len(split_result) :
             ComesFrom(split_result[k], QualifyingSections[k])

\* C6, amended: the result has exactly one segment for every qualifying
\* section that has something other than whitespace after its marker, the
\* k-th segment from the k-th such section; with no such section, the empty
\* stream included, the result is the empty list.
C6_CountAndOrder ==
    split_pc = "returned" =>
       /\ Len(split_result) = Len(EmittingSections)
       /\ \A k \in 1..Len(split_result) :
             /\ split_result[k] # <<>>
             /\ ComesFrom(split_result[k], EmittingSections[k])
       /\ content = <<>> => split_result = <<>>

\* C6 witness: a stream with a qualifying section that is blank after its
\* marker and another that is not; the result has a segment.
C6_Witness ==
    /\ split_pc = "returned"
    /\ Len(QualifyingSections) > Len(EmittingSections)
    /\ Len(split_result) >= 1

\* C7: every emitted segment is the exact input bytes between the marker
\* and the next delimiter, less leading and trailing whitespace, whatever
\* bytes the payload holds.
C7_PayloadPreserved ==
    split_pc = "returned" =>
       \A k \in 1..Len(split_result) :
          k <= Len(EmittingSections) =>
             split_result[k] = Strip(AfterMarker(EmittingSections[k]))

(***************************************************************************)
(* Properties of the run (Spec).                                           *)
(***************************************************************************)
\* The DER payloads each container file of the model was assembled from,
\* in order: what the file holds, stated without parse_certs.
PayloadsOf(c) ==
    CASE c = ContainerOne -> <<DerA>>
      [] c = ContainerDup -> <<DerA, DerB>>
      [] c = ContainerMixed -> <<DerMalformed, DerC, DerD>>
      [] c = ContainerAllBad -> <<DerUnsupported, DerNoIssuerCN>>
      [] OTHER -> <<>>

\* The segments the container of entry j holds.
SegmentsOf(j) == PayloadsOf(tl[j].container)

\* Entry j has a URI, its file downloads, and the file has a segment:
\* store_certs is called for it.
Storable(j) ==
    /\ tl[j].uri # <<>>
    /\ tl[j].fetch_ok
    /\ SegmentsOf(j) # <<>>

\* The provider rows of this run that come from entry j.
RowsOf(j) ==
    IF tl[j].uri = <<>> THEN {}
    ELSE {k \in 1..Len(db.tables.providers) :
             /\ db.tables.providers[k].original_filename = Basename(tl[j].uri)
             /\ db.tables.providers[k].downloaded_at = "this_run"}

ThisRunProviders ==
    {k \in 1..Len(db.tables.providers) :
        db.tables.providers[k].downloaded_at = "this_run"}

\* The certificate rows of the provider row at place k, as (ordinal,
\* content) pairs.
CertificatesOfRow(k) ==
    {<<r.cert_number, r.cert_content>> :
        r \in {c \in Range(db.tables.certificates) :
                  c.provider_id = db.tables.providers[k].id}}

\* What entry j's certificates are when stored: a pair for every segment
\* that parses.
ExpectedCertificates(j) ==
    {<<i, SegmentsOf(j)[i]>> :
        i \in {n \in 1..Len(SegmentsOf(j)) : Parsed(SegmentsOf(j)[n]).ok}}

Logged(what) == \E k \in 1..Len(log) : log[k].event = what

Count(what) == Cardinality({k \in 1..Len(log) : log[k].event = what})

\* The trust list was fetched and parsed and the loop has been through
\* every entry.
RunComplete ==
    /\ main_pc = "done"
    /\ ~Logged("RequestException")
    /\ ~Logged("ParseError")

NoFetchOrStoreError ==
    /\ ~Logged("failed_to_download")
    /\ ~Logged("database_error")
    /\ ~Logged("error_removing_database")

\* C8 as stated: after a run without fetch or store error the store holds
\* exactly one provider row for every entry of the trust list, an entry
\* whose container yields no segment included.
C8_AsStated ==
    (RunComplete /\ NoFetchOrStoreError) =>
       \A j \in 1..Len(tl) : Cardinality(RowsOf(j)) = 1

\* C8, amended: after a run without fetch or store error the store holds
\* exactly one provider row for every entry that has a URI and whose
\* container yields at least one segment, no provider row for any other
\* entry and no other provider row; at no time does an entry have more than
\* one row.
C8_OneRowPerStoredEntry ==
    /\ \A j \in 1..Len(tl) : Cardinality(RowsOf(j)) <= 1
    /\ (RunComplete /\ NoFetchOrStoreError) =>
          /\ \A j \in 1..Len(tl) :
                Cardinality(RowsOf(j)) = IF Storable(j) THEN 1 ELSE 0
          /\ Cardinality(ThisRunProviders)
                = Cardinality({j \in 1..Len(tl) : Storable(j)})

\* C8 witness: a clean run over two entries, one whose file has no segment
\* (no row) and one whose certificates all fail to parse (a row that owns
\* no certificate).
C8_Witness ==
    /\ RunComplete
    /\ NoFetchOrStoreError
    /\ Len(tl) = 2
    /\ \E j \in 1..2 :
          /\ tl[j].uri # <<>> /\ tl[j].fetch_ok /\ SegmentsOf(j) = <<>>
          /\ RowsOf(j) = {}
    /\ \E j \in 1..2 : \E k \in RowsOf(j) : CertificatesOfRow(k) = {}

\* C9: provider processing begins on a store that has just been destroyed
\* and recreated: when the first provider is processed the two tables exist
\* and are empty, and at the end of the run no row of a previous run is in
\* the store.
C9_FreshStore ==
    /\ (main_pc = "loop" /\ idx = 1) =>
          /\ db.has_tables
          /\ db.tables.providers = <<>>
          /\ db.tables.certificates = <<>>
    /\ main_pc = "done" =>
          /\ \A r \in Range(db.tables.providers) :
                r.downloaded_at # "previous_run"
          /\ \A r \in Range(db.tables.certificates) :
                r.created_at # "previous_run"

\* The entries the loop is done with.
Processed == {j \in 1..Len(tl) : j < idx}

\* C10: provider-level failure isolation.  Every entry the loop is done
\* with has either no row or its one row with exactly the certificates its
\* own container gives, whatever happened to the entries before it; it has
\* no row only if store_certs was not called for it (no URI, a failed
\* download, no segment) or its insert unit raised, the units that raised
\* being as many as the storable entries without a row; a failed download
\* is reported once per entry it happened to; and a run whose trust list was
\* fetched and parsed ends only after the loop has been through every entry,
\* while a trust list that cannot be fetched or parsed leaves no provider
\* processed.
C10_ProviderIsolation ==
    /\ \A j \in Processed :
          /\ Cardinality(RowsOf(j)) <= 1
          /\ \A k \in RowsOf(j) :
                /\ Storable(j)
                /\ CertificatesOfRow(k) = ExpectedCertificates(j)
    /\ (main_pc \in {"loop", "done"}) =>
          /\ Count("database_error")
                = Cardinality({j \in Processed : Storable(j) /\ RowsOf(j) = {}})
          /\ Count("failed_to_download")
                = Cardinality({j \in Processed :
                                  tl[j].uri # <<>> /\ ~tl[j].fetch_ok})
    /\ RunComplete => Processed = 1..Len(tl)
    /\ (main_pc = "done" /\ ~RunComplete) =>
          /\ tl = <<>>
          /\ ThisRunProviders = {}

\* C10 witness: a complete run over two entries in which the insert unit of
\* the first raised, leaving it no row, and the second is stored with its
\* certificates.
C10_Witness ==
    /\ RunComplete
    /\ Len(tl) = 2
    /\ Logged("database_error")
    /\ Storable(1)
    /\ RowsOf(1) = {}
    /\ \E k \in RowsOf(2) :
          /\ CertificatesOfRow(k) = ExpectedCertificates(2)
          /\ CertificatesOfRow(k) # {}

====
